---- MODULE Spec2Model ----
(***************************************************************************)
(* Model of generator.py: the parameter-combination generator of           *)
(* UEXEndpointDocsParser (get_defaults, create_endpoint_url,                *)
(* create_method_urls_for_all_optional_params,                              *)
(* create_method_paths_for_all_params), the loop of DocsParser.run, and the *)
(* document operations of OpenAPIManager (deep_equals, add_new_schema,      *)
(* deep_get_overwrite, extract_schemas, update_path_data, overwrite_keys,   *)
(* consolidate_recursive_object_references).                                *)
(***************************************************************************)
EXTENDS Integers, Sequences, FiniteSets, TLC

VARIABLES pc, endpoint, get_templated_paths, links, lookup,
          endpoint_links, endpoints,
          item1, item2, equal, schema, log, cursor, last

vars == <<pc, endpoint, get_templated_paths, links, lookup,
          endpoint_links, endpoints,
          item1, item2, equal, schema, log, cursor, last>>

genVars == <<endpoint, get_templated_paths, links, lookup, endpoint_links, endpoints>>
eqVars == <<item1, item2, equal>>
catVars == <<schema, log, cursor, last>>

(***************************************************************************)
(* Bounds of the model.                                                     *)
(***************************************************************************)
\* largest number of required parameters an endpoint declares
MaxRequired == 2
\* largest number of optional parameters an endpoint declares
MaxOptional == 2

(***************************************************************************)
(* Generic helpers.                                                         *)
(***************************************************************************)
Range(s) == {s[i] : i \in DOMAIN s}

Front(s) == SubSeq(s, 1, Len(s) - 1)

Last(s) == s[Len(s)]

\* the injective sequences over S of length n
InjSeqs(S, n) == {s \in [1..n -> S] : \A i, j \in 1..n : i # j => s[i] # s[j]}

\* the injective sequences over S of length at most n
InjSeqsUpTo(S, n) == UNION {InjSeqs(S, k) : k \in 0..n}

(***************************************************************************)
(* Python values held by the defaults tables, and their str() as used by    *)
(* the f-strings of create_endpoint_url.                                    *)
(***************************************************************************)
PyInt(n) == [t |-> "int", v |-> n]

PyStr(s) == [t |-> "str", v |-> s]

PyBool(b) == [t |-> "bool", v |-> b]

PyNone == [t |-> "none"]

\* f"{value}"
Format(value) ==
    CASE value.t = "int" -> ToString(value.v)
      [] value.t = "str" -> value.v
      [] value.t = "bool" -> (IF value.v THEN "True" ELSE "False")
      [] value.t = "none" -> "None"

(***************************************************************************)
(* UEXEndpointParameter, UEXEndpointLink.                                   *)
(***************************************************************************)
UEXEndpointParameter(name, is_required) ==
    [name |-> name, type |-> "int", length |-> 11, is_required |-> is_required]

UEXEndpointLink(link, required_params) ==
    [link |-> link, required_params |-> required_params]

(***************************************************************************)
(* UEXEndpointDocsParser.defaults and required_args_all.                    *)
(***************************************************************************)
defaults ==
    [id_commodity |-> PyInt(33),
     id_star_system |-> PyInt(68),
     id_planet |-> PyInt(116),
     id_orbit |-> PyInt(116),
     id_moon |-> PyInt(18),
     id_city |-> PyInt(5),
     id_jurisdiction |-> PyInt(1),
     id_outpost |-> PyInt(44),
     id_terminal |-> PyInt(74),
     id_faction |-> PyInt(23),
     id_space_station |-> PyInt(11),
     id_category |-> PyInt(1),
     id_organization |-> PyInt(1),
     id_company |-> PyInt(1),
     id_vehicle |-> PyInt(19),
     id_parent |-> PyInt(169),
     id_item |-> PyInt(1),
     id_poi |-> PyInt(0),
     commodity_name |-> PyStr("GOLD"),
     commodity_code |-> PyStr("GOLD"),
     commodity_slug |-> PyStr("gold"),
     terminal_name |-> PyStr("TDD"),
     terminal_code |-> PyStr("TDORI"),
     terminal_slug |-> PyStr("tdori"),
     uuid |-> PyStr("a6ec85a5-feba-4239-88e4-02e1a6e521e1"),
     code |-> PyStr("TDORI"),
     name |-> PyStr("ARC"),
     is_lagrange |-> PyInt(1),
     is_item_manufacturer |-> PyBool(TRUE),
     is_vehicle_manufacturer |-> PyBool(TRUE),
     id_terminal_origin |-> PyInt(89),
     id_planet_origin |-> PyInt(59),
     id_orbit_origin |-> PyInt(59),
     id_faction_origin |-> PyInt(23),
     id_star_system_origin |-> PyInt(19),
     id_terminal_destination |-> PyInt(12),
     id_faction_destination |-> PyInt(23),
     id_planet_destination |-> PyInt(4),
     id_orbit_destination |-> PyInt(4),
     id_star_system_destination |-> PyInt(26),
     investment |-> PyInt(1000000),
     specialization |-> PyStr("trading"),
     slug |-> PyStr("slug"),
     languages |-> PyStr("en"),
     day_availability |-> PyStr("weekends"),
     time_availability |-> PyStr("morning"),
     username |-> PyStr("kronny"),
     timezone |-> PyStr("Europe/Prague"),
     archetypes |-> PyStr("strategist")]

required_args_all == {"commodities_prices_history"}

\* the endpoint ids of the model that re.match(r"^items", id) accepts
MatchesItems(id) == id \in {"items", "items_prices", "items_attributes"}

\* the match statement of get_defaults: the overrides of the endpoint id
default_overrides(id) ==
    CASE id = "categories" ->
            [type |-> PyStr("item"), section |-> PyStr("other")]
      [] id = "marketplace_listings" ->
            [id |-> PyStr("9Nor6zAazH"),
             slug |-> PyStr("training-mining-and-refining-9Nor6zAazH")]
      [] id = "organizations" -> [slug |-> PyStr("uexcorp")]
      [] id = "terminals" -> [type |-> PyStr("commodity")]
      [] id = "commodities_raw_prices" ->
            [id_terminal |-> PyStr("237,241"), id_commodity |-> PyInt(45)]
      [] id = "commodities_prices_history" ->
            [id_terminal |-> PyInt(74), id_commodity |-> PyInt(68)]
      [] id = "vehicles_loaners" -> [id_vehicle |-> PyInt(19)]
      [] id = "vehicles_purchases_prices" ->
            [id_vehicle |-> PyInt(19), id_terminal |-> PyInt(148)]
      [] id = "vehicles_rentals_prices" ->
            [id_vehicle |-> PyInt(148), id_terminal |-> PyInt(150)]
      [] OTHER ->
            IF MatchesItems(id)
            THEN [id_item |-> PyInt(1743), id_terminal |-> PyInt(268)]
            ELSE [k \in {} |-> PyNone]

\* get_defaults with the fault of consulting the global table before the overrides
get_defaults_global_first(id, templated, parameter_name, default) ==
    IF templated THEN PyStr("{" \o parameter_name \o "}")
    ELSE IF parameter_name \in DOMAIN defaults THEN defaults[parameter_name]
    ELSE IF parameter_name \in DOMAIN default_overrides(id)
         THEN default_overrides(id)[parameter_name]
    ELSE default

get_defaults(id, templated, parameter_name, default) ==
    IF templated THEN PyStr("{" \o parameter_name \o "}")
    ELSE IF parameter_name \in DOMAIN default_overrides(id)
         THEN default_overrides(id)[parameter_name]
    ELSE IF parameter_name \in DOMAIN defaults THEN defaults[parameter_name]
    ELSE default

(***************************************************************************)
(* create_endpoint_url.                                                     *)
(***************************************************************************)
\* parameters_path after the loop over required_params
RECURSIVE parameters_path(_, _, _)
parameters_path(id, templated, required_params) ==
    IF required_params = <<>> THEN "/"
    ELSE LET parameter == Last(required_params)
         IN parameters_path(id, templated, Front(required_params))
              \o parameter.name \o "/"
              \o Format(get_defaults(id, templated, parameter.name, PyNone))
              \o "/"

\* d[key] = value on an insertion-ordered dict held as a sequence of <<key, value>>
DictAssign(d, key, value) ==
    IF \E i \in DOMAIN d : d[i][1] = key
    THEN [i \in DOMAIN d |-> IF d[i][1] = key THEN <<key, value>> ELSE d[i]]
    ELSE Append(d, <<key, value>>)

\* parameters_query after the loop over optional_params
RECURSIVE parameters_query(_, _, _)
parameters_query(id, templated, optional_params) ==
    IF optional_params = <<>> THEN <<>>
    ELSE LET parameter == Last(optional_params)
         IN DictAssign(parameters_query(id, templated, Front(optional_params)),
                       parameter.name,
                       get_defaults(id, templated, parameter.name, PyStr("")))

\* "&".join([f"{key}={value}" for key, value in parameters_query.items()])
RECURSIVE JoinQuery(_)
JoinQuery(d) ==
    IF d = <<>> THEN ""
    ELSE LET item == Last(d)
             text == item[1] \o "=" \o Format(item[2])
         IN IF Len(d) = 1 THEN text ELSE JoinQuery(Front(d)) \o "&" \o text

\* parameters_query_str with the fault of leaving out the "?" prefix
parameters_query_str_no_mark(id, templated, optional_params) ==
    JoinQuery(parameters_query(id, templated, optional_params))

parameters_query_str(id, templated, optional_params) ==
    LET joined == JoinQuery(parameters_query(id, templated, optional_params))
    IN IF joined # "" THEN "?" \o joined ELSE joined

create_endpoint_url(id, templated, base_endpoint_path, optional_params, required_params) ==
    LET path == parameters_path(id, templated, required_params)
        url == IF templated
               THEN base_endpoint_path \o path
               ELSE base_endpoint_path \o path
                      \o parameters_query_str(id, templated, optional_params)
    IN UEXEndpointLink(url, required_params)

(***************************************************************************)
(* create_method_urls_for_all_optional_params.                              *)
(* An entry of optional_params is a list of parameters or one parameter.    *)
(***************************************************************************)
ListEntry(params) == [isList |-> TRUE, value |-> params]

ParamEntry(param) == [isList |-> FALSE, value |-> param]

\* the loop over optional_params
RECURSIVE UrlsForEntries(_, _, _, _, _)
UrlsForEntries(id, templated, base_endpoint_path, optional_params, required_params) ==
    IF optional_params = <<>> THEN <<>>
    ELSE LET entry == Last(optional_params)
             optionals == IF ~entry.isList THEN <<entry.value>> ELSE entry.value
         IN Append(UrlsForEntries(id, templated, base_endpoint_path,
                                  Front(optional_params), required_params),
                   create_endpoint_url(id, templated, base_endpoint_path,
                                       optionals, required_params))

create_method_urls_for_all_optional_params(id, templated, base_endpoint_path, optional_params, required_params) ==
    (IF Len(optional_params) = 0 \/ templated
     THEN <<create_endpoint_url(id, templated, base_endpoint_path, <<>>, required_params)>>
     ELSE <<>>)
    \o UrlsForEntries(id, templated, base_endpoint_path, optional_params, required_params)

(***************************************************************************)
(* create_method_paths_for_all_params.                                      *)
(* required_params and optional_params are Python sets: the order in which  *)
(* a set is iterated is not the declaration order, it is an order of the    *)
(* element hashes, which differ from one interpreter run to the next.       *)
(***************************************************************************)
\* the orders in which iterating the set S can yield its elements
SetIterations(S) == InjSeqs(S, Cardinality(S))

\* the initial optional_params_x with the fault of leaving out the empty list
InitialOptionalsNoBaseline(optIter) ==
    [i \in DOMAIN optIter |-> ParamEntry(optIter[i])]

\* optional_params_x = list([[], *optional_params])
InitialOptionals(optIter) ==
    <<ListEntry(<<>>)>> \o [i \in DOMAIN optIter |-> ParamEntry(optIter[i])]

\* required_params_x: one combination holding the whole set, or one per parameter
RequiredCombinations(id, reqIter) ==
    IF id \in required_args_all
    THEN <<reqIter>>
    ELSE [i \in DOMAIN reqIter |-> <<reqIter[i]>>]

\* the orders of required_params.difference(requireds), one per combination
DifferenceIterations(required_params, required_params_x) ==
    LET Rest(i) == required_params \ Range(required_params_x[i])
        All == UNION {SetIterations(Rest(i)) : i \in DOMAIN required_params_x}
    IN {d \in [DOMAIN required_params_x -> All] :
          \A i \in DOMAIN required_params_x : d[i] \in SetIterations(Rest(i))}

\* the loop over required_params_x from its i-th combination on; optional_params_x
\* is the one list all iterations extend
RECURSIVE CombinationLoop(_, _, _, _, _, _, _)
CombinationLoop(id, templated, base_endpoint_path, required_params_x, diffIter, optional_params_x, i) ==
    IF i > Len(required_params_x) THEN <<>>
    ELSE LET requireds == required_params_x[i]
             extended == optional_params_x
                           \o [k \in DOMAIN diffIter[i] |-> ParamEntry(diffIter[i][k])]
         IN create_method_urls_for_all_optional_params(
                id, templated, base_endpoint_path, extended, requireds)
            \o CombinationLoop(id, templated, base_endpoint_path, required_params_x,
                               diffIter, extended, i + 1)

\* the links yielded when the sets iterate in the orders reqIter, optIter, diffIter
MethodPaths(id, templated, base_endpoint_path, reqIter, optIter, diffIter) ==
    LET required_params_x == RequiredCombinations(id, reqIter)
        optional_params_x == InitialOptionals(optIter)
    IN (IF Len(required_params_x) = 0
        THEN create_method_urls_for_all_optional_params(
                 id, templated, base_endpoint_path, optional_params_x, <<>>)
        ELSE <<>>)
       \o CombinationLoop(id, templated, base_endpoint_path, required_params_x,
                          diffIter, optional_params_x, 1)

(***************************************************************************)
(* The endpoints the generator is run on: an id, a base path, the declared  *)
(* required and optional parameters in their order on the docs page.        *)
(***************************************************************************)
EndpointIds ==
    {"commodity", "commodities_prices_history", "commodities_raw_prices",
     "items_prices", "categories"}

ParameterNames == {"id_commodity", "id_terminal", "type", "game_version"}

DeclaredParameters(names, is_required) ==
    [i \in DOMAIN names |-> UEXEndpointParameter(names[i], is_required)]

Endpoints ==
    {[id |-> id, base_path |-> "/" \o id,
      required |-> DeclaredParameters(req, TRUE),
      optional |-> DeclaredParameters(opt, FALSE)] :
        <<id, req, opt>> \in
          {<<i, r, o>> \in EndpointIds
                            \X InjSeqsUpTo(ParameterNames, MaxRequired)
                            \X InjSeqsUpTo(ParameterNames, MaxOptional) :
             Range(r) \cap Range(o) = {}}}

\* the default argument get_defaults is called with
Fallbacks == {PyNone, PyStr(""), PyInt(7)}

NoLookup == [parameter_name |-> "", default |-> PyNone, value |-> PyNone]

NoTree == [t |-> "none"]

InitGen ==
    /\ pc = "start"
    /\ endpoint \in Endpoints
    /\ get_templated_paths \in BOOLEAN
    /\ links = <<>>
    /\ lookup = NoLookup
    /\ endpoint_links = <<>> /\ endpoints = <<>>
    /\ item1 = NoTree /\ item2 = NoTree /\ equal = FALSE
    /\ schema = NoTree /\ log = <<>> /\ cursor = 0 /\ last = NoTree

\* UEXEndpointDocsParser.create_method_paths_for_all_params, run to exhaustion
\* (links=list(link_versions) in process_endpoint_docs)
CreateMethodPaths ==
    /\ pc = "start"
    /\ \E reqIter \in SetIterations(Range(endpoint.required)),
          optIter \in SetIterations(Range(endpoint.optional)) :
         \E diffIter \in DifferenceIterations(Range(endpoint.required),
                             RequiredCombinations(endpoint.id, reqIter)) :
            links' = MethodPaths(endpoint.id, get_templated_paths, endpoint.base_path,
                                 reqIter, optIter, diffIter)
    /\ pc' = "done"
    /\ UNCHANGED <<endpoint, get_templated_paths, lookup, endpoint_links, endpoints, eqVars, catVars>>

\* one call of UEXEndpointDocsParser.get_defaults
GetDefaults ==
    /\ pc = "start"
    /\ \E parameter_name \in ParameterNames, default \in Fallbacks :
         lookup' = [parameter_name |-> parameter_name, default |-> default,
                    value |-> get_defaults(endpoint.id, get_templated_paths,
                                           parameter_name, default)]
    /\ pc' = "resolved"
    /\ UNCHANGED <<endpoint, get_templated_paths, links, endpoint_links, endpoints, eqVars, catVars>>

NextGen == CreateMethodPaths \/ GetDefaults

SpecGen == InitGen /\ [][NextGen]_vars

(***************************************************************************)
(* Properties of the generator.                                             *)
(***************************************************************************)
RequiredSet == Range(endpoint.required)

OptionalSet == Range(endpoint.optional)

\* the links of the sequence ls emitted for the required-combination c
LinksOf(ls, c) ==
    LET Mine(l) == l.required_params = c
    IN SelectSeq(ls, Mine)

\* the baseline link of the required-combination c
Baseline(c) ==
    create_endpoint_url(endpoint.id, get_templated_paths, endpoint.base_path, <<>>, c)

\* the link of the required-combination c with the one optional parameter p
SingleOptional(c, p) ==
    create_endpoint_url(endpoint.id, get_templated_paths, endpoint.base_path, <<p>>, c)

OneOfRequiredValueMode ==
    /\ pc = "done"
    /\ endpoint.id \notin required_args_all
    /\ ~get_templated_paths
    /\ Len(endpoint.required) >= 1

\* C1: in ONE_OF_REQUIRED value mode with n >= 1 required parameters, the links
\* carry exactly one required-combination per required parameter, and every
\* combination has one baseline link followed by exactly |O| + (n-1)
\* single-optional links, one for each parameter of O plus the required
\* parameters outside the combination.
C1_OnePerRequiredWithFoldedPool ==
    OneOfRequiredValueMode =>
      /\ {links[i].required_params : i \in DOMAIN links} = {<<r>> : r \in RequiredSet}
      /\ \A r \in RequiredSet :
           LET mine == LinksOf(links, <<r>>)
               pool == OptionalSet \cup (RequiredSet \ {r})
           IN /\ Len(mine) = 1 + Cardinality(OptionalSet) + (Len(endpoint.required) - 1)
              /\ mine[1] = Baseline(<<r>>)
              /\ {mine[k] : k \in 2..Len(mine)} = {SingleOptional(<<r>>, p) : p \in pool}

\* the required-combinations of the endpoint, each as the set of its parameters
CombinationSets ==
    IF endpoint.id \in required_args_all THEN {RequiredSet}
    ELSE IF RequiredSet = {} THEN {{}}
    ELSE {{r} : r \in RequiredSet}

\* C2: for every required-combination of the endpoint (the empty one when no
\* parameter is required, in both modes) the emitted links include its
\* baseline, the link with no optional parameter and no query string.
C2_BaselineAlwaysPresent ==
    pc = "done" =>
      /\ \A S \in CombinationSets :
           \E i \in DOMAIN links :
              /\ Range(links[i].required_params) = S
              /\ links[i] = Baseline(links[i].required_params)
      /\ \A i \in DOMAIN links :
           \E j \in DOMAIN links : links[j] = Baseline(links[i].required_params)

\* a value-mode run with two required-combinations and an optional parameter
C2_Witness ==
    /\ OneOfRequiredValueMode
    /\ Len(endpoint.required) >= 2
    /\ Len(endpoint.optional) >= 1
    /\ \A r \in RequiredSet : \E i \in DOMAIN links : links[i] = Baseline(<<r>>)

\* the declared parameters outside the combination c, in declaration order
DeclaredRest(c) ==
    LET Outside(p) == p \notin Range(c)
    IN SelectSeq(endpoint.required, Outside)

\* the links generated when every set iterates in declaration order
DeclaredOrderLinks ==
    LET required_params_x == RequiredCombinations(endpoint.id, endpoint.required)
    IN MethodPaths(endpoint.id, get_templated_paths, endpoint.base_path,
                   endpoint.required, endpoint.optional,
                   [i \in DOMAIN required_params_x |-> DeclaredRest(required_params_x[i])])

\* C3: the sequence of links is a function of the declared parameter order and
\* the mode alone: every run yields the links of the declaration order.
C3_DeterministicDeclaredOrder ==
    pc = "done" => links = DeclaredOrderLinks

CommodityScenario ==
    /\ pc = "done"
    /\ ~get_templated_paths
    /\ endpoint = [id |-> "commodity", base_path |-> "/commodity",
                   required |-> <<UEXEndpointParameter("id_commodity", TRUE)>>,
                   optional |-> <<UEXEndpointParameter("id_terminal", FALSE)>>]

LinkTexts == [i \in DOMAIN links |-> links[i].link]

\* C4 as stated: the commodity endpoint yields /commodity/33 and
\* /commodity/33?id_terminal=74.
C4_AsStated ==
    CommodityScenario =>
      LinkTexts = <<"/commodity/33", "/commodity/33?id_terminal=74">>

\* C4: the commodity endpoint (required id_commodity, optional id_terminal,
\* ONE_OF_REQUIRED value mode) yields exactly two links, the required
\* parameter substituted as /name/value/:
\* /commodity/id_commodity/33/ and /commodity/id_commodity/33/?id_terminal=74.
C4_CommodityLinks ==
    CommodityScenario =>
      LinkTexts = <<"/commodity/id_commodity/33/",
                    "/commodity/id_commodity/33/?id_terminal=74">>

C4_Witness == CommodityScenario /\ Len(links) = 2

\* C5: get_defaults returns the placeholder {name} in template mode; otherwise
\* the endpoint's override when it has one for the parameter; otherwise the
\* global default when there is one; otherwise the fallback it was given.
C5_DefaultsPriority ==
    pc = "resolved" =>
      LET name == lookup.parameter_name
          overrides == default_overrides(endpoint.id)
      IN /\ get_templated_paths => lookup.value = PyStr("{" \o name \o "}")
         /\ (~get_templated_paths /\ name \in DOMAIN overrides)
              => lookup.value = overrides[name]
         /\ (~get_templated_paths /\ name \notin DOMAIN overrides
               /\ name \in DOMAIN defaults)
              => lookup.value = defaults[name]
         /\ (~get_templated_paths /\ name \notin DOMAIN overrides
               /\ name \notin DOMAIN defaults)
              => lookup.value = lookup.default

\* a lookup where the override and the global default both exist and differ
C5_Witness ==
    /\ pc = "resolved"
    /\ ~get_templated_paths
    /\ lookup.parameter_name \in DOMAIN default_overrides(endpoint.id)
    /\ lookup.parameter_name \in DOMAIN defaults
    /\ default_overrides(endpoint.id)[lookup.parameter_name] # defaults[lookup.parameter_name]
    /\ lookup.value = default_overrides(endpoint.id)[lookup.parameter_name]

(***************************************************************************)
(* Document trees (the nodes yaml.safe_load yields): a dict keeps its       *)
(* items in insertion order as <<key, value>> pairs with distinct keys, a   *)
(* list keeps its elements, a scalar is a str, an int, a bool or None.      *)
(***************************************************************************)
\* largest number of elements of a list of the trees compared
MaxLen == 2

PyDict(items) == [t |-> "dict", items |-> items]

PyList(items) == [t |-> "list", items |-> items]

IsDict(d) == d.t = "dict"

IsList(d) == d.t = "list"

\* d.keys()
Keys(d) == {d.items[i][1] : i \in DOMAIN d.items}

\* d[key], for a key of d
DictGet(d, key) == d.items[CHOOSE i \in DOMAIN d.items : d.items[i][1] = key][2]

\* d after d[key] = value
DictSet(d, key, value) == PyDict(DictAssign(d.items, key, value))

\* the numeric value of an int or a bool (bool is a subclass of int)
NumVal(x) == IF x.t = "bool" THEN (IF x.v THEN 1 ELSE 0) ELSE x.v

\* item1 == item2 as Python evaluates it where deep_equals reaches it: two
\* dicts or two lists never get here, numbers compare by value whatever their
\* type, everything else compares equal only to its own type
PyEquals(x, y) ==
    IF x.t \in {"int", "bool"} /\ y.t \in {"int", "bool"} THEN NumVal(x) = NumVal(y)
    ELSE IF x.t # y.t THEN FALSE
    ELSE x = y

RECURSIVE deep_equals(_, _)
RECURSIVE deep_equals_dict_loop(_, _, _, _)
RECURSIVE deep_equals_list_loop(_, _, _)
RECURSIVE deep_equals_dict_loop_no_leftover(_, _, _, _)

\* deep_equals with the fault of not checking the keys left over in item2
deep_equals_dict_loop_no_leftover(items1, i, d2, item2_keys) ==
    IF i > Len(items1) THEN TRUE
    ELSE LET key == items1[i][1]
             value == items1[i][2]
         IN IF key \notin Keys(d2) THEN FALSE
            ELSE IF ~deep_equals(value, DictGet(d2, key)) THEN FALSE
            ELSE deep_equals_dict_loop_no_leftover(items1, i + 1, d2, item2_keys \ {key})

\* the loop over item1.items() from its i-th item on, and the final test
deep_equals_dict_loop(items1, i, d2, item2_keys) ==
    IF i > Len(items1) THEN Cardinality(item2_keys) = 0
    ELSE LET key == items1[i][1]
             value == items1[i][2]
         IN IF key \notin Keys(d2) THEN FALSE
            ELSE IF ~deep_equals(value, DictGet(d2, key)) THEN FALSE
            ELSE deep_equals_dict_loop(items1, i + 1, d2, item2_keys \ {key})

\* the loop over range(len(item1)) from index i on
deep_equals_list_loop(l1, l2, i) ==
    IF i > Len(l1) THEN TRUE
    ELSE IF ~deep_equals(l1[i], l2[i]) THEN FALSE
    ELSE deep_equals_list_loop(l1, l2, i + 1)

deep_equals(x, y) ==
    IF IsDict(x) /\ IsDict(y)
    THEN deep_equals_dict_loop(x.items, 1, y, Keys(y))
    ELSE IF IsList(x) /\ IsList(y)
    THEN IF Len(x.items) # Len(y.items) THEN FALSE
         ELSE deep_equals_list_loop(x.items, y.items, 1)
    ELSE PyEquals(x, y)

(***************************************************************************)
(* The trees deep_equals is run on.                                         *)
(***************************************************************************)
Scalars == {PyInt(1), PyInt(2), PyBool(TRUE), PyStr("1"), PyNone}

IsScalar(x) == x.t \in {"int", "bool", "str", "none"}

TreeKeys == {"a", "b"}

\* the dicts over TreeKeys with values in S, in every insertion order
DictsOver(S) ==
    {PyDict([i \in DOMAIN ks |-> <<ks[i], vs[i]>>]) :
        <<ks, vs>> \in {<<k, v>> \in InjSeqsUpTo(TreeKeys, Cardinality(TreeKeys))
                                      \X UNION {[1..n -> S] : n \in 0..Cardinality(TreeKeys)} :
                          Len(k) = Len(v)}}

\* the lists of at most MaxLen elements of S
ListsOver(S) == {PyList(l) : l \in UNION {[1..n -> S] : n \in 0..MaxLen}}

FlatTrees == Scalars \cup DictsOver(Scalars) \cup ListsOver(Scalars)

\* a flat tree, or a flat tree inside a dict or a list
Trees ==
    FlatTrees
      \cup {PyDict(<< <<"a", x>> >>) : x \in FlatTrees}
      \cup {PyList(<<x>>) : x \in FlatTrees}

InitEq ==
    /\ pc = "start"
    /\ item1 \in Trees
    /\ item2 \in Trees
    /\ equal = FALSE
    /\ endpoint = NoTree /\ get_templated_paths = FALSE /\ links = <<>>
    /\ lookup = NoLookup
    /\ endpoint_links = <<>> /\ endpoints = <<>>
    /\ schema = NoTree /\ log = <<>> /\ cursor = 0 /\ last = NoTree

\* one call of OpenAPIManager.deep_equals
DeepEquals ==
    /\ pc = "start"
    /\ equal' = deep_equals(item1, item2)
    /\ pc' = "compared"
    /\ UNCHANGED <<item1, item2, genVars, catVars>>

NextEq == DeepEquals

SpecEq == InitEq /\ [][NextEq]_vars

(***************************************************************************)
(* Properties of deep_equals.                                               *)
(***************************************************************************)
\* C8: deep_equals is reflexive and symmetric; two dicts are equal iff they
\* have the same key set and deep-equal values under every key, whatever the
\* key order; two lists are equal iff they have the same length and deep-equal
\* elements at every index, so [1, 2] and [2, 1] are unequal.
C8_StructuralEquality ==
    pc = "compared" =>
      /\ item1 = item2 => equal
      /\ equal = deep_equals(item2, item1)
      /\ (IsDict(item1) /\ IsDict(item2)) =>
            equal = (/\ Keys(item1) = Keys(item2)
                     /\ \A k \in Keys(item1) :
                          deep_equals(DictGet(item1, k), DictGet(item2, k)))
      /\ (IsList(item1) /\ IsList(item2)) =>
            equal = (/\ Len(item1.items) = Len(item2.items)
                     /\ \A i \in DOMAIN item1.items :
                          deep_equals(item1.items[i], item2.items[i]))
      /\ (item1 = PyList(<<PyInt(1), PyInt(2)>>) /\ item2 = PyList(<<PyInt(2), PyInt(1)>>))
            => ~equal

\* two dicts with the same items in a different key order compared equal
C8_Witness ==
    /\ pc = "compared"
    /\ IsDict(item1) /\ IsDict(item2)
    /\ Len(item1.items) = 2
    /\ item1 # item2
    /\ Keys(item1) = Keys(item2)
    /\ equal

\* C9: two scalars are deep-equal only when they have the same type and the
\* same value; scalars of different types are unequal, also when they sit at
\* the same place of two trees of the same shape.
C9_ScalarsByValueAndType ==
    pc = "compared" =>
      /\ (IsScalar(item1) /\ IsScalar(item2)) => (equal = (item1 = item2))
      /\ \A x, y \in Scalars :
           (x.t # y.t /\ (\/ (item1 = PyDict(<< <<"a", x>> >>) /\ item2 = PyDict(<< <<"a", y>> >>))
                          \/ (item1 = PyList(<<x>>) /\ item2 = PyList(<<y>>))))
             => ~equal

(***************************************************************************)
(* OpenAPIManager: the managed document self.schema, deep_get_overwrite,    *)
(* add_new_schema and extract_schemas.  log holds the warnings and errors   *)
(* the last operation reported.                                             *)
(***************************************************************************)
EmptyDict == PyDict(<<>>)

\* {"$ref": f"#/components/schemas/{ref}"}
RefTo(ref) == PyDict(<< <<"$ref", PyStr("#/components/schemas/" \o ref)>> >>)

\* deep_get_overwrite(d, keys, value): d as the call leaves it, the value
\* returned, and whether the call raised; value = PyNone is "no value"
RECURSIVE deep_get_overwrite(_, _, _)
deep_get_overwrite(d, keys, value) ==
    IF Len(keys) = 1 /\ value # PyNone
    THEN IF IsDict(d)
         THEN LET assigned == DictSet(d, keys[1], value)
              IN [d |-> assigned, ret |-> assigned, raised |-> FALSE]
         ELSE [d |-> d, ret |-> PyNone, raised |-> TRUE]
    ELSE IF Len(keys) > 0
    THEN IF IsDict(d)
         THEN LET key == keys[1]
                  created == IF key \notin Keys(d) THEN DictSet(d, key, EmptyDict) ELSE d
                  inner == deep_get_overwrite(DictGet(created, key), Tail(keys), value)
              IN [d |-> DictSet(created, key, inner.d),
                  ret |-> inner.ret, raised |-> inner.raised]
         ELSE [d |-> d, ret |-> PyNone, raised |-> TRUE]
    ELSE [d |-> d, ret |-> d, raised |-> FALSE]

\* self.schema["components"]["schemas"]
Catalog(doc) == DictGet(DictGet(doc, "components"), "schemas")

HasCatalog(doc) ==
    /\ "components" \in Keys(doc)
    /\ "schemas" \in Keys(DictGet(doc, "components"))

\* doc after self.schema["components"]["schemas"] = catalog
WithCatalog(doc, catalog) ==
    DictSet(doc, "components", DictSet(DictGet(doc, "components"), "schemas", catalog))

ConflictError(name) ==
    [level |-> "error", text |-> "already defined, but with different definition",
     name |-> name]

NotFoundWarning(name) == [level |-> "warning", text |-> "not found", name |-> name]

\* add_new_schema with the fault of storing the schema whether or not the name exists
add_new_schema_overwrite(doc, name, tree) ==
    LET withComponents == IF "components" \notin Keys(doc)
                          THEN DictSet(doc, "components", EmptyDict) ELSE doc
        components == DictGet(withComponents, "components")
        withSchemas == IF "schemas" \notin Keys(components)
                       THEN DictSet(withComponents, "components",
                                    DictSet(components, "schemas", EmptyDict))
                       ELSE withComponents
        schemas == Catalog(withSchemas)
    IN [schema |-> WithCatalog(withSchemas, DictSet(schemas, name, tree)), log |-> <<>>]

\* add_new_schema(name, schema) on the document doc: the document after the
\* call and what the call logged
add_new_schema(doc, name, tree) ==
    LET withComponents == IF "components" \notin Keys(doc)
                          THEN DictSet(doc, "components", EmptyDict) ELSE doc
        components == DictGet(withComponents, "components")
        withSchemas == IF "schemas" \notin Keys(components)
                       THEN DictSet(withComponents, "components",
                                    DictSet(components, "schemas", EmptyDict))
                       ELSE withComponents
        schemas == Catalog(withSchemas)
    IN IF name \notin Keys(schemas)
       THEN [schema |-> WithCatalog(withSchemas, DictSet(schemas, name, tree)),
             log |-> <<>>]
       ELSE [schema |-> withSchemas,
             log |-> IF ~deep_equals(DictGet(schemas, name), tree)
                     THEN <<ConflictError(name)>> ELSE <<>>]

\* schema_name_by_property_path, each selector already split at the dots: the
\* rows of the table with a one-property path, with the two selectors that
\* share a canonical name, and with an items path, in the table's order
schema_name_by_property_path ==
    << <<(<<"GetCategoriesOkResponse", "properties", "data", "items">>), "CategoryDTO">>,
       <<(<<"GetCommoditiesStatusOkResponse", "properties", "data", "properties", "buy", "items">>), "CommodityStatusDTO">>,
       <<(<<"GetCommoditiesStatusOkResponse", "properties", "data", "properties", "sell", "items">>), "CommodityStatusDTO">>,
       <<(<<"GetUserOkResponse", "properties", "data">>), "UexUserDTO">> >>

\* the body of the loop of extract_schemas with the fault of rewriting the
\* location before the node is registered
extract_selector_rewrite_first(doc, selector_items, ref) ==
    LET target_schema == Head(selector_items)
        target_prop_path == Tail(selector_items)
    IN IF target_schema \notin Keys(Catalog(doc))
       THEN [schema |-> doc, log |-> <<NotFoundWarning(target_schema)>>, raised |-> FALSE]
       ELSE LET written == deep_get_overwrite(DictGet(Catalog(doc), target_schema),
                                              target_prop_path, RefTo(ref))
                afterWrite == WithCatalog(doc, DictSet(Catalog(doc), target_schema, written.d))
                read == deep_get_overwrite(written.d, target_prop_path, PyNone)
                added == add_new_schema(afterWrite, ref, read.ret)
            IN [schema |-> added.schema, log |-> added.log,
                raised |-> written.raised \/ read.raised]

\* the body of the loop of extract_schemas for one selector: the document
\* after it, what it logged, and whether it raised
extract_selector(doc, selector_items, ref) ==
    LET target_schema == Head(selector_items)
        target_prop_path == Tail(selector_items)
    IN IF target_schema \notin Keys(Catalog(doc))
       THEN [schema |-> doc, log |-> <<NotFoundWarning(target_schema)>>, raised |-> FALSE]
       ELSE LET read == deep_get_overwrite(DictGet(Catalog(doc), target_schema),
                                           target_prop_path, PyNone)
                afterRead == WithCatalog(doc, DictSet(Catalog(doc), target_schema, read.d))
            IN IF read.raised
               THEN [schema |-> afterRead, log |-> <<>>, raised |-> TRUE]
               ELSE LET added == add_new_schema(afterRead, ref, read.ret)
                        written == deep_get_overwrite(
                                       DictGet(Catalog(added.schema), target_schema),
                                       target_prop_path, RefTo(ref))
                    IN [schema |-> WithCatalog(added.schema,
                                      DictSet(Catalog(added.schema), target_schema, written.d)),
                        log |-> added.log,
                        raised |-> written.raised]

(***************************************************************************)
(* The documents and schemas the catalog operations are run on.             *)
(***************************************************************************)
Obj(items) == PyDict(items)

\* {type: object, properties: {x: {type: <type>}}}
ObjectWithX(type) ==
    Obj(<< <<"type", PyStr("object")>>,
           <<"properties", Obj(<< <<"x", Obj(<< <<"type", PyStr(type)>> >>)>> >>)>> >>)

ObjString == ObjectWithX("string")

ObjNumber == ObjectWithX("number")

\* ObjString with its keys in the other order
ObjStringReordered ==
    Obj(<< <<"properties", Obj(<< <<"x", Obj(<< <<"type", PyStr("string")>> >>)>> >>)>>,
           <<"type", PyStr("object")>> >>)

\* two schemas that differ only in the type of one scalar
ObjNullableBool == Obj(<< <<"type", PyStr("object")>>, <<"nullable", PyBool(TRUE)>> >>)

ObjNullableInt == Obj(<< <<"type", PyStr("object")>>, <<"nullable", PyInt(1)>> >>)

\* a response schema whose data is an array of items
ResponseOf(items) ==
    Obj(<< <<"type", PyStr("object")>>,
           <<"properties",
             Obj(<< <<"data", Obj(<< <<"type", PyStr("array")>>, <<"items", items>> >>)>> >>)>> >>)

\* a response schema whose data holds a buy and a sell array
StatusResponseOf(buy, sell) ==
    Obj(<< <<"type", PyStr("object")>>,
           <<"properties",
             Obj(<< <<"data",
                      Obj(<< <<"type", PyStr("object")>>,
                             <<"properties",
                               Obj(<< <<"buy", Obj(<< <<"type", PyStr("array")>>, <<"items", buy>> >>)>>,
                                      <<"sell", Obj(<< <<"type", PyStr("array")>>, <<"items", sell>> >>)>> >>)>> >>)>> >>)>> >>)

\* a response schema whose data is one object
DataResponseOf(data) ==
    Obj(<< <<"type", PyStr("object")>>,
           <<"properties", Obj(<< <<"data", data>> >>)>> >>)

\* a response schema without a data property
ResponseWithoutData ==
    Obj(<< <<"type", PyStr("object")>>, <<"properties", EmptyDict>> >>)

\* a response schema whose data is a list, not a dict
ResponseWithListData == DataResponseOf(PyList(<<ObjString>>))

Absent == [t |-> "absent"]

\* the dict of the entries of the sequence that are not Absent
RECURSIVE DictOfPresent(_)
DictOfPresent(entries) ==
    IF entries = <<>> THEN <<>>
    ELSE IF Last(entries)[2] = Absent THEN DictOfPresent(Front(entries))
    ELSE Append(DictOfPresent(Front(entries)), Last(entries))

InitialCatalogs ==
    {PyDict(DictOfPresent(<< <<"GetCategoriesOkResponse", categories>>,
                             <<"GetCommoditiesStatusOkResponse", status>>,
                             <<"GetUserOkResponse", user>>,
                             <<"CategoryDTO", dto>> >>)) :
        <<categories, status, user, dto>> \in
            {Absent, ResponseOf(ObjString), ResponseOf(ObjNumber),
             ResponseWithoutData, ResponseWithListData}
            \X {Absent, StatusResponseOf(ObjString, ObjString),
                StatusResponseOf(ObjString, ObjNumber)}
            \X {Absent, DataResponseOf(ObjString)}
            \X {Absent, ObjString, ObjNumber}}

\* self.schema as read from openapi.yaml
InitialDocuments ==
    {PyDict(<< <<"paths", EmptyDict>> >>),
     PyDict(<< <<"paths", EmptyDict>>, <<"components", EmptyDict>> >>)}
      \cup {PyDict(<< <<"paths", EmptyDict>>,
                      <<"components", PyDict(<< <<"schemas", c>> >>)>> >>) :
              c \in InitialCatalogs}

\* the names and schemas add_new_schema is called with
AddedNames == {"Foo", "CategoryDTO"}

AddedSchemas == {ObjString, ObjStringReordered, ObjNumber, ObjNullableBool, ObjNullableInt}

InitCat ==
    /\ pc = "idle"
    /\ schema \in InitialDocuments
    /\ log = <<>>
    /\ cursor = 0
    /\ last = [op |-> "none"]
    /\ endpoint = NoTree /\ get_templated_paths = FALSE /\ links = <<>>
    /\ lookup = NoLookup
    /\ endpoint_links = <<>> /\ endpoints = <<>>
    /\ item1 = NoTree /\ item2 = NoTree /\ equal = FALSE

\* one call of OpenAPIManager.add_new_schema
AddNewSchema ==
    /\ pc = "idle"
    /\ \E name \in AddedNames, tree \in AddedSchemas :
         LET call == add_new_schema(schema, name, tree)
         IN /\ schema' = call.schema
            /\ log' = call.log
            /\ last' = [op |-> "add_new_schema", name |-> name, tree |-> tree,
                        before |-> schema]
    /\ UNCHANGED <<pc, cursor, genVars, eqVars>>

\* OpenAPIManager.extract_schemas up to its loop: self.schema["components"]
\* raises KeyError when the document has no components; rerun records that
\* the call follows a call of extract_schemas that ran its loop to the end
ExtractSchemasBegin ==
    /\ pc = "idle"
    /\ IF "components" \notin Keys(schema)
       THEN pc' = "raised" /\ cursor' = cursor
       ELSE IF "schemas" \notin Keys(DictGet(schema, "components"))
       THEN pc' = "idle" /\ cursor' = cursor
       ELSE pc' = "extract_schemas" /\ cursor' = 1
    /\ log' = <<>>
    /\ last' = [op |-> "extract_schemas", before |-> schema,
                rerun |-> last.op = "extract_selector"]
    /\ UNCHANGED <<schema, genVars, eqVars>>

\* one iteration of the loop of extract_schemas, over the selectors in the
\* table's order; the loop ends after the last selector or when one raises;
\* start is the document the call of extract_schemas began with
ExtractSelector ==
    /\ pc = "extract_schemas"
    /\ cursor \in DOMAIN schema_name_by_property_path
    /\ LET selector_items == schema_name_by_property_path[cursor][1]
           ref == schema_name_by_property_path[cursor][2]
           step == extract_selector(schema, selector_items, ref)
       IN /\ schema' = step.schema
          /\ log' = step.log
          /\ last' = [op |-> "extract_selector", selector |-> selector_items,
                      ref |-> ref, raised |-> step.raised, before |-> schema,
                      start |-> IF last.op = "extract_schemas"
                                THEN last.before ELSE last.start,
                      rerun |-> last.rerun]
          /\ pc' = IF step.raised THEN "raised"
                   ELSE IF cursor = Len(schema_name_by_property_path) THEN "idle"
                   ELSE "extract_schemas"
          /\ cursor' = IF step.raised \/ cursor = Len(schema_name_by_property_path)
                       THEN 0 ELSE cursor + 1
    /\ UNCHANGED <<genVars, eqVars>>

NextCat == AddNewSchema \/ ExtractSchemasBegin \/ ExtractSelector

SpecCat == InitCat /\ [][NextCat]_vars

(***************************************************************************)
(* Properties of the schema catalog.                                        *)
(***************************************************************************)
\* structural equality of two trees: dicts by key set and values whatever the
\* key order, lists by length and elements in order, scalars by type and value
RECURSIVE SameStructure(_, _)
SameStructure(x, y) ==
    IF IsDict(x) /\ IsDict(y)
    THEN /\ Keys(x) = Keys(y)
         /\ \A k \in Keys(x) : SameStructure(DictGet(x, k), DictGet(y, k))
    ELSE IF IsList(x) /\ IsList(y)
    THEN /\ Len(x.items) = Len(y.items)
         /\ \A i \in DOMAIN x.items : SameStructure(x.items[i], y.items[i])
    ELSE x = y

\* the last operation was add_new_schema for a name the catalog already held
AddedExistingName ==
    /\ last.op = "add_new_schema"
    /\ HasCatalog(last.before)
    /\ last.name \in Keys(Catalog(last.before))

\* the last operation was add_new_schema for a name the catalog did not hold
AddedNewName ==
    /\ last.op = "add_new_schema"
    /\ ~(HasCatalog(last.before) /\ last.name \in Keys(Catalog(last.before)))

\* C6: the first add_new_schema for a name stores the tree it is given, every
\* later call for that name leaves the entry and the rest of the document as
\* they were, and when the later tree is structurally different the call
\* reports exactly one conflict.
C6_FirstWriterWinsOneConflict ==
    /\ AddedNewName => DictGet(Catalog(schema), last.name) = last.tree
    /\ AddedExistingName =>
         /\ schema = last.before
         /\ ~SameStructure(DictGet(Catalog(last.before), last.name), last.tree)
              => log = <<ConflictError(last.name)>>

\* C7: add_new_schema for a name the catalog holds, with a tree structurally
\* identical to the stored one, leaves the document (the catalog's size and
\* content) unchanged and reports no conflict.
C7_AddIsIdempotent ==
    (AddedExistingName
       /\ SameStructure(DictGet(Catalog(last.before), last.name), last.tree))
      => (schema = last.before /\ log = <<>>)

\* a second call with the stored tree in another key order
C7_Witness ==
    /\ AddedExistingName
    /\ SameStructure(DictGet(Catalog(last.before), last.name), last.tree)
    /\ DictGet(Catalog(last.before), last.name) # last.tree
    /\ Catalog(schema) = Catalog(last.before)
    /\ log = <<>>

\* every segment of path names a key of the dict reached so far
RECURSIVE Resolves(_, _)
Resolves(d, path) ==
    IF path = <<>> THEN TRUE
    ELSE /\ IsDict(d)
         /\ Head(path) \in Keys(d)
         /\ Resolves(DictGet(d, Head(path)), Tail(path))

\* the node at path, for a path that resolves
RECURSIVE NodeAt(_, _)
NodeAt(d, path) ==
    IF path = <<>> THEN d ELSE NodeAt(DictGet(d, Head(path)), Tail(path))

\* d with the node at path replaced by node and everything else as it is
RECURSIVE ReplaceAt(_, _, _)
ReplaceAt(d, path, node) ==
    IF path = <<>> THEN node
    ELSE PyDict([i \in DOMAIN d.items |->
                   IF d.items[i][1] = Head(path)
                   THEN <<d.items[i][1], ReplaceAt(d.items[i][2], Tail(path), node)>>
                   ELSE d.items[i]])

\* the last operation processed a selector whose root schema was in the
\* catalog, whose path resolved inside it, and whose canonical name was new
ExtractedNewName ==
    /\ last.op = "extract_selector"
    /\ Head(last.selector) \in Keys(Catalog(last.before))
    /\ Resolves(DictGet(Catalog(last.before), Head(last.selector)), Tail(last.selector))
    /\ last.ref \notin Keys(Catalog(last.before))

\* C10: when the catalog holds the selector's root schema, the path resolves
\* inside it and the canonical name is not in the catalog, extract_schemas
\* adds the canonical name with the node that was at the path, replaces that
\* node by a $ref to the canonical name and leaves the rest of the root
\* schema, and every other entry, unchanged.
C10_ExtractRegistersAndRewrites ==
    ExtractedNewName =>
      LET old == Catalog(last.before)
          new == Catalog(schema)
          target == Head(last.selector)
          path == Tail(last.selector)
          root == DictGet(old, target)
      IN /\ ~last.raised
         /\ Keys(new) = Keys(old) \cup {last.ref}
         /\ DictGet(new, last.ref) = NodeAt(root, path)
         /\ DictGet(new, target) = ReplaceAt(root, path, RefTo(last.ref))
         /\ \A n \in Keys(old) \ {target} : DictGet(new, n) = DictGet(old, n)

\* an items node was extracted under its new canonical name
C10_Witness ==
    /\ ExtractedNewName
    /\ last.ref = "CategoryDTO"
    /\ DictGet(Catalog(schema), "CategoryDTO") = ObjNumber
    /\ NodeAt(DictGet(Catalog(schema), "GetCategoriesOkResponse"),
              <<"properties", "data", "items">>) = RefTo("CategoryDTO")
(***************************************************************************)
(* OpenAPIManager.update_path_data: the operation data merged into the     *)
(* paths section of the document.                                          *)
(***************************************************************************)
\* d after d.update(other): the keys of other in their order, a key d holds
\* keeps its place and a new key goes to the end
RECURSIVE DictUpdateItems(_, _)
DictUpdateItems(items, other) ==
    IF other = <<>> THEN items
    ELSE DictUpdateItems(DictAssign(items, Head(other)[1], Head(other)[2]), Tail(other))

DictUpdate(d, other) == PyDict(DictUpdateItems(d.items, other.items))

NoDataWarning(schema_operation, schema_path) ==
    [level |-> "warning", text |-> "no data not set for",
     name |-> <<schema_operation, schema_path>>]

NoMappingWarning(schema_path) ==
    [level |-> "warning", text |-> "no data mapping set for", name |-> schema_path]

\* the inner loop of update_path_data over the operations of one path: the
\* operations after it and what it logged
RECURSIVE update_operations(_, _, _)
update_operations(schema_path, schema_operations, data_by_path) ==
    IF schema_operations = <<>> THEN [items |-> <<>>, log |-> <<>>]
    ELSE LET schema_operation == Head(schema_operations)[1]
             schema_operation_props == Head(schema_operations)[2]
             rest == update_operations(schema_path, Tail(schema_operations), data_by_path)
         IN IF schema_path \in Keys(data_by_path)
            THEN LET path_operation_mapping == DictGet(data_by_path, schema_path)
                 IN IF schema_operation \in Keys(path_operation_mapping)
                    THEN [items |-> << <<schema_operation,
                                         DictUpdate(schema_operation_props,
                                                    DictGet(path_operation_mapping,
                                                            schema_operation))>> >>
                                    \o rest.items,
                          log |-> rest.log]
                    ELSE [items |-> <<Head(schema_operations)>> \o rest.items,
                          log |-> <<NoDataWarning(schema_operation, schema_path)>>
                                    \o rest.log]
            ELSE [items |-> <<Head(schema_operations)>> \o rest.items,
                  log |-> <<NoMappingWarning(schema_path)>> \o rest.log]

\* the outer loop of update_path_data over the paths of the document
RECURSIVE update_paths(_, _)
update_paths(paths, data_by_path) ==
    IF paths = <<>> THEN [items |-> <<>>, log |-> <<>>]
    ELSE LET schema_path == Head(paths)[1]
             here == update_operations(schema_path, Head(paths)[2].items, data_by_path)
             rest == update_paths(Tail(paths), data_by_path)
         IN [items |-> << <<schema_path, PyDict(here.items)>> >> \o rest.items,
             log |-> here.log \o rest.log]

\* update_path_data with the fault of taking over the operations of the data
\* that the document lacks
update_path_data_adding(doc, data_by_path) ==
    LET updated == update_paths(DictGet(doc, "paths").items, data_by_path)
        merged == [i \in DOMAIN updated.items |->
                     LET schema_path == updated.items[i][1]
                     IN IF schema_path \in Keys(data_by_path)
                        THEN <<schema_path,
                               DictUpdate(DictGet(data_by_path, schema_path),
                                          updated.items[i][2])>>
                        ELSE updated.items[i]]
    IN [schema |-> DictSet(doc, "paths", PyDict(merged)), log |-> updated.log]

\* update_path_data(data_by_path) on the document doc: the document after the
\* call and what the call logged
update_path_data(doc, data_by_path) ==
    LET updated == update_paths(DictGet(doc, "paths").items, data_by_path)
    IN [schema |-> DictSet(doc, "paths", PyDict(updated.items)), log |-> updated.log]
\* the attributes an operation of the document holds before the call
OperationProps ==
    {EmptyDict, PyDict(<< <<"summary", PyStr("old")>>, <<"tags", PyStr("t")>> >>)}

\* the attributes the data supplies for one operation
SuppliedProps ==
    {PyDict(<< <<"summary", PyStr("new")>> >>),
     PyDict(<< <<"description", PyStr("d")>>, <<"summary", PyStr("new")>> >>)}

\* the dicts from a method to one of the props, no method to both methods
OperationsOver(props) ==
    {PyDict(DictOfPresent(<< <<"get", get>>, <<"post", post>> >>)) :
        <<get, post>> \in (props \cup {Absent}) \X (props \cup {Absent})}

\* the dicts from a path to one of the operations, no path to both paths
PathsOver(operations) ==
    {PyDict(DictOfPresent(<< <<"/a", a>>, <<"/b", b>> >>)) :
        <<a, b>> \in (operations \cup {Absent}) \X (operations \cup {Absent})}

\* self.schema with a paths section
PathDocuments ==
    {PyDict(<< <<"openapi", PyStr("3.0.0")>>, <<"paths", paths>> >>) :
        paths \in PathsOver(OperationsOver(OperationProps))}

\* the data_by_path update_path_data is called with
PathData == PathsOver(OperationsOver(SuppliedProps))

InitPaths ==
    /\ pc = "idle"
    /\ schema \in PathDocuments
    /\ log = <<>>
    /\ cursor = 0
    /\ last = [op |-> "none"]
    /\ endpoint = NoTree /\ get_templated_paths = FALSE /\ links = <<>>
    /\ lookup = NoLookup
    /\ endpoint_links = <<>> /\ endpoints = <<>>
    /\ item1 = NoTree /\ item2 = NoTree /\ equal = FALSE

\* one call of OpenAPIManager.update_path_data
UpdatePathData ==
    /\ pc = "idle"
    /\ \E data_by_path \in PathData :
         LET call == update_path_data(schema, data_by_path)
         IN /\ schema' = call.schema
            /\ log' = call.log
            /\ last' = [op |-> "update_path_data", data_by_path |-> data_by_path,
                        before |-> schema]
    /\ pc' = "done"
    /\ UNCHANGED <<cursor, genVars, eqVars>>

NextPaths == UpdatePathData

SpecPaths == InitPaths /\ [][NextPaths]_vars

(***************************************************************************)
(* Properties of update_path_data.                                          *)
(***************************************************************************)
\* the (path, method) pairs of the paths section of doc
PathMethodPairs(doc) ==
    UNION {{<<path, method>> : method \in Keys(DictGet(DictGet(doc, "paths"), path))} :
             path \in Keys(DictGet(doc, "paths"))}

\* the attributes of the operation (path, method) of doc
OperationOf(doc, path, method) == DictGet(DictGet(DictGet(doc, "paths"), path), method)

\* the data names the operation (path, method)
Supplies(data_by_path, path, method) ==
    /\ path \in Keys(data_by_path)
    /\ method \in Keys(DictGet(data_by_path, path))

\* C11: update_path_data adds no path to the paths section and no method to
\* a path, whatever the data names: the (path, method) pairs are those of
\* before, an operation the data names holds every supplied key with the
\* supplied value and every other key with its old value, and an operation
\* the data does not name, like the rest of the document, is as it was.
C11_MergesIntoExistingOperationsOnly ==
    last.op = "update_path_data" =>
      /\ Keys(schema) = Keys(last.before)
      /\ \A k \in Keys(schema) \ {"paths"} : DictGet(schema, k) = DictGet(last.before, k)
      /\ Keys(DictGet(schema, "paths")) = Keys(DictGet(last.before, "paths"))
      /\ PathMethodPairs(schema) = PathMethodPairs(last.before)
      /\ \A pair \in PathMethodPairs(last.before) :
           LET old == OperationOf(last.before, pair[1], pair[2])
               new == OperationOf(schema, pair[1], pair[2])
           IN IF Supplies(last.data_by_path, pair[1], pair[2])
              THEN LET supplied == DictGet(DictGet(last.data_by_path, pair[1]), pair[2])
                   IN /\ Keys(new) = Keys(old) \cup Keys(supplied)
                      /\ \A k \in Keys(supplied) : DictGet(new, k) = DictGet(supplied, k)
                      /\ \A k \in Keys(old) \ Keys(supplied) :
                           DictGet(new, k) = DictGet(old, k)
              ELSE new = old

\* the data named a path and a method the document lacks, and an operation
\* the document holds was merged: its summary overwritten, its tags kept
C11_Witness ==
    /\ last.op = "update_path_data"
    /\ "/b" \in Keys(last.data_by_path) \ Keys(DictGet(last.before, "paths"))
    /\ Supplies(last.data_by_path, "/a", "post")
    /\ PathMethodPairs(last.before) = {<<"/a", "get">>}
    /\ Supplies(last.data_by_path, "/a", "get")
    /\ OperationOf(schema, "/a", "get") =
         PyDict(<< <<"summary", PyStr("new")>>, <<"tags", PyStr("t")>>,
                   <<"description", PyStr("d")>> >>)
(***************************************************************************)
(* OpenAPIManager.overwrite_keys and the read mode of deep_get_overwrite.  *)
(***************************************************************************)
\* overwrite_keys(key, data) on the document doc, keys being key.split("."):
\* the document and the data as the call leaves them, and whether it raised
overwrite_keys(doc, keys, data) ==
    LET source == deep_get_overwrite(data, keys, PyNone)
    IN IF source.raised
       THEN [schema |-> doc, data |-> source.d, raised |-> TRUE]
       ELSE LET written == deep_get_overwrite(doc, keys, source.ret)
            IN [schema |-> written.d, data |-> source.d, raised |-> written.raised]

\* the keys of the merge mode that overwrite_keys is called with, split at
\* the dots: one of the one-segment keys and the two-segment key
OverwrittenKeys == {<<"info">>, <<"components", "securitySchemes">>}

SecuritySchemes(name) ==
    PyDict(<< <<name, PyDict(<< <<"type", PyStr("apiKey")>> >>)>> >>)

\* the documents overwrite_keys takes the values from: info and
\* components.securitySchemes absent, null, empty, or holding a value
SourceDocuments ==
    {PyDict(DictOfPresent(<< <<"info", info>>, <<"components", components>> >>)) :
        <<info, components>> \in
            {Absent, PyNone, PyStr(""), PyDict(<< <<"title", PyStr("X")>> >>)}
            \X {Absent, EmptyDict, PyStr("s"),
                PyDict(<< <<"securitySchemes", PyNone>> >>),
                PyDict(<< <<"securitySchemes", SecuritySchemes("bearer")>> >>)}}

\* self.schema before the merge: the empty document of __init__, or a
\* document read with some of the sections
ManagedDocuments ==
    {PyDict(DictOfPresent(<< <<"paths", EmptyDict>>, <<"info", info>>,
                             <<"components", components>> >>)) :
        <<info, components>> \in
            {Absent, PyDict(<< <<"title", PyStr("old")>> >>)}
            \X {Absent, PyStr("x"),
                PyDict(<< <<"schemas", EmptyDict>> >>),
                PyDict(<< <<"securitySchemes", SecuritySchemes("key")>> >>)}}

InitKeys ==
    /\ pc = "idle"
    /\ schema \in ManagedDocuments
    /\ log = <<>>
    /\ cursor = 0
    /\ last = [op |-> "none"]
    /\ endpoint = NoTree /\ get_templated_paths = FALSE /\ links = <<>>
    /\ lookup = NoLookup
    /\ endpoint_links = <<>> /\ endpoints = <<>>
    /\ item1 = NoTree /\ item2 = NoTree /\ equal = FALSE

\* one call of OpenAPIManager.overwrite_keys
OverwriteKeys ==
    /\ pc = "idle"
    /\ \E keys \in OverwrittenKeys, data \in SourceDocuments :
         LET call == overwrite_keys(schema, keys, data)
         IN /\ schema' = call.schema
            /\ last' = [op |-> "overwrite_keys", keys |-> keys, data |-> data,
                        data_after |-> call.data, raised |-> call.raised,
                        before |-> schema]
            /\ pc' = IF call.raised THEN "raised" ELSE "idle"
    /\ UNCHANGED <<log, cursor, genVars, eqVars>>

\* one call of deep_get_overwrite without a value on the document
DeepGet ==
    /\ pc = "idle"
    /\ \E keys \in OverwrittenKeys :
         LET call == deep_get_overwrite(schema, keys, PyNone)
         IN /\ schema' = call.d
            /\ last' = [op |-> "deep_get_overwrite", keys |-> keys, ret |-> call.ret,
                        raised |-> call.raised, before |-> schema]
            /\ pc' = IF call.raised THEN "raised" ELSE "idle"
    /\ UNCHANGED <<log, cursor, genVars, eqVars>>

NextKeys == OverwriteKeys \/ DeepGet

SpecKeys == InitKeys /\ [][NextKeys]_vars

(***************************************************************************)
(* Properties of overwrite_keys and of path resolution.                     *)
(***************************************************************************)
\* C12: when the source document holds a value at the key, the managed
\* document holds after overwrite_keys, at the same location, a value equal
\* to the source's.
C12_OverwriteCopiesSourceValue ==
    (/\ last.op = "overwrite_keys"
     /\ ~last.raised
     /\ Resolves(last.data, last.keys))
      => /\ Resolves(schema, last.keys)
         /\ NodeAt(schema, last.keys) = NodeAt(last.data, last.keys)
\* the scenario of the claim: overwrite_keys("info", {info: {title: "X"}}) on
\* the empty document of __init__ gives info.title == "X"
C12_ScenarioHolds ==
    (/\ last.op = "overwrite_keys"
     /\ last.keys = <<"info">>
     /\ last.before = PyDict(<< <<"paths", EmptyDict>> >>)
     /\ last.data = PyDict(<< <<"info", PyDict(<< <<"title", PyStr("X")>> >>)>> >>))
      => NodeAt(schema, <<"info", "title">>) = PyStr("X")

\* the claim holds for every source value but null
C12_HoldsForValuesOtherThanNull ==
    (/\ last.op = "overwrite_keys"
     /\ ~last.raised
     /\ Resolves(last.data, last.keys)
     /\ NodeAt(last.data, last.keys) # PyNone)
      => /\ Resolves(schema, last.keys)
         /\ NodeAt(schema, last.keys) = NodeAt(last.data, last.keys)

\* C13: deep_get_overwrite without a value leaves the tree it traverses as
\* it was, whatever the path: the document it is called on, and the source
\* document overwrite_keys reads with it.
C13_ReadLeavesTreeUnchanged ==
    /\ last.op = "deep_get_overwrite" => schema = last.before
    /\ last.op = "overwrite_keys" => last.data_after = last.data
(***************************************************************************)
(* Properties of extract_schemas on paths that do not resolve, on           *)
(* conflicting canonical names and on a second run.                         *)
(***************************************************************************)
\* the traversal of path through the dicts of d meets a key that is missing
RECURSIVE SegmentMissing(_, _)
SegmentMissing(d, path) ==
    /\ path # <<>>
    /\ IsDict(d)
    /\ \/ Head(path) \notin Keys(d)
       \/ SegmentMissing(DictGet(d, Head(path)), Tail(path))

\* the last operation processed a selector whose root schema was in the
\* catalog and whose path met a missing segment inside it
ExtractedMissingSegment ==
    /\ last.op = "extract_selector"
    /\ Head(last.selector) \in Keys(Catalog(last.before))
    /\ SegmentMissing(DictGet(Catalog(last.before), Head(last.selector)),
                      Tail(last.selector))

\* C14: a selector whose root schema is in the catalog but whose path meets
\* a missing segment is skipped: no entry is added under its canonical name,
\* the root schema is as it was, and the loop goes on.
C14_UnresolvedSelectorSkipped ==
    ExtractedMissingSegment =>
      /\ ~last.raised
      /\ pc # "raised"
      /\ last.ref \in Keys(Catalog(schema)) => last.ref \in Keys(Catalog(last.before))
      /\ DictGet(Catalog(schema), Head(last.selector))
           = DictGet(Catalog(last.before), Head(last.selector))
\* the last operation processed a selector whose root schema was in the
\* catalog and whose path resolved inside it, and rewrote the location
ExtractedAndRewrote ==
    /\ last.op = "extract_selector"
    /\ ~last.raised
    /\ Head(last.selector) \in Keys(Catalog(last.before))
    /\ Resolves(DictGet(Catalog(last.before), Head(last.selector)), Tail(last.selector))
    /\ NodeAt(DictGet(Catalog(schema), Head(last.selector)), Tail(last.selector))
         = RefTo(last.ref)

\* C17: whenever extract_schemas replaces the node at a selector's location
\* by a $ref to the canonical name, the catalog entry under that name is
\* structurally equal to the node that was at the location just before.
C17_ReferenceKeepsStructure ==
    ExtractedAndRewrote =>
      SameStructure(DictGet(Catalog(schema), last.ref),
                    NodeAt(DictGet(Catalog(last.before), Head(last.selector)),
                           Tail(last.selector)))

\* the claim holds whenever the canonical name was not in the catalog
C17_HoldsForNewNames ==
    (ExtractedAndRewrote /\ last.ref \notin Keys(Catalog(last.before))) =>
      SameStructure(DictGet(Catalog(schema), last.ref),
                    NodeAt(DictGet(Catalog(last.before), Head(last.selector)),
                           Tail(last.selector)))
\* a call of extract_schemas that directly followed a completed call of
\* extract_schemas has run its loop to the end
SecondRunCompleted ==
    /\ pc = "idle"
    /\ last.op = "extract_selector"
    /\ last.rerun

\* C18: running extract_schemas a second time in a row leaves the document,
\* every catalog entry and every rewritten location, equal to the document
\* after the first run.
C18_SecondRunChangesNothing ==
    SecondRunCompleted => schema = last.start

\* a second run over a document whose first run extracted UexUserDTO: the
\* location holds the $ref, the entry its structure, and the second run
\* only reported that the $ref differs from the entry
C18_Witness ==
    /\ SecondRunCompleted
    /\ {"UexUserDTO", "GetUserOkResponse"} \subseteq Keys(Catalog(schema))
    /\ DictGet(Catalog(schema), "UexUserDTO") = ObjString
    /\ NodeAt(DictGet(Catalog(schema), "GetUserOkResponse"), <<"properties", "data">>)
         = RefTo("UexUserDTO")
    /\ log = <<ConflictError("UexUserDTO")>>
(***************************************************************************)
(* DocsParser.run: the loop over the discovered endpoint links.             *)
(***************************************************************************)
\* largest number of endpoint links the documentation index lists
MaxLinks == 3

NoMatch == [t |-> "no match"]

\* the text of an <em> tag as the regular expression of
\* parse_parameters_from_name_tags reads it: the characters before the first
\* "(" and the characters between "(" and ")"; text is name alone when
\* bracketed is FALSE
TypeInfoText(name, bracketed, length) ==
    [name |-> name, bracketed |-> bracketed, length |-> length]

\* the strings of digits the annotations use, with their int()
DigitStrings == {"3", "11"}

IntOf(digits) == IF digits = "3" THEN 3 ELSE 11

\* re.match(r"(?P<name>[^(]+)(\((?P<length>\d+)\))?", text): no match when
\* no character precedes the "(", the length group only when digits are
\* bracketed
type_info_match(text) ==
    IF text.name = "" THEN NoMatch
    ELSE [t |-> "match", name |-> text.name,
          length |-> IF text.bracketed /\ text.length \in DigitStrings
                     THEN text.length ELSE ""]

\* parse_parameters_from_name_tags over the tags from the front: the
\* parameters parsed, or TypeError at type_info["name"] of a failed match
RECURSIVE parse_parameters_from_name_tags(_)
parse_parameters_from_name_tags(input_name_tags) ==
    IF input_name_tags = <<>> THEN [raised |-> "", parameters |-> <<>>]
    ELSE LET input_name_tag == Head(input_name_tags)
             rest == parse_parameters_from_name_tags(Tail(input_name_tags))
             type_info == type_info_match(input_name_tag.type_info_tag)
         IN IF input_name_tag.text = "secret_key" THEN rest
            ELSE IF type_info = NoMatch THEN [raised |-> "TypeError", parameters |-> <<>>]
            ELSE IF rest.raised # "" THEN rest
            ELSE [raised |-> "",
                  parameters |->
                    << [name |-> input_name_tag.text, type |-> type_info.name,
                        length |-> IF type_info.length # ""
                                   THEN IntOf(type_info.length) ELSE 0] >>
                      \o rest.parameters]

\* process_endpoint_docs(link) on the page behind the link: HTTPError from
\* get_from_cache_or_request, the exception of the parse, or the endpoint
process_endpoint_docs(link, page) ==
    IF page.status # 200 THEN [raised |-> "HTTPError"]
    ELSE LET parsed == parse_parameters_from_name_tags(page.input_name_tags)
         IN IF parsed.raised # "" THEN [raised |-> parsed.raised]
            ELSE [raised |-> "", docs_url |-> link, parameters |-> parsed.parameters]

\* the except clause of run: only HTTPError is caught
run_catches(raised) == raised = "HTTPError"

NameTag(text, type_info_tag) == [text |-> text, type_info_tag |-> type_info_tag]

\* the documentation pages behind the links: well-formed annotations with
\* and without a length, a request that fails, an annotation with nothing
\* before the bracket, and one whose only such annotation is secret_key's
Pages ==
    {[status |-> 200,
      input_name_tags |-> <<NameTag("id_commodity", TypeInfoText("int", TRUE, "11"))>>],
     [status |-> 200,
      input_name_tags |-> <<NameTag("code", TypeInfoText("string", TRUE, "abc")),
                            NameTag("type", TypeInfoText("string", FALSE, ""))>>],
     [status |-> 500, input_name_tags |-> <<>>],
     [status |-> 200,
      input_name_tags |-> <<NameTag("id_terminal", TypeInfoText("int", TRUE, "11")),
                            NameTag("type", TypeInfoText("", TRUE, "3"))>>],
     [status |-> 200,
      input_name_tags |-> <<NameTag("secret_key", TypeInfoText("", TRUE, "3")),
                            NameTag("id_item", TypeInfoText("int", TRUE, "11"))>>]}

InitRun ==
    /\ pc = "run"
    /\ endpoint_links \in UNION {[1..n -> Pages] : n \in 0..MaxLinks}
    /\ endpoints = <<>>
    /\ cursor = 1
    /\ log = <<>>
    /\ endpoint = NoTree /\ get_templated_paths = FALSE /\ links = <<>>
    /\ lookup = NoLookup
    /\ item1 = NoTree /\ item2 = NoTree /\ equal = FALSE
    /\ schema = NoTree /\ last = NoTree

\* one iteration of the loop of DocsParser.run
ProcessEndpointDocs ==
    /\ pc = "run"
    /\ cursor \in DOMAIN endpoint_links
    /\ LET call == process_endpoint_docs(cursor, endpoint_links[cursor])
       IN IF call.raised = ""
          THEN /\ endpoints' = Append(endpoints,
                                 [docs_url |-> call.docs_url, parameters |-> call.parameters])
               /\ cursor' = cursor + 1
               /\ UNCHANGED <<pc, log>>
          ELSE IF run_catches(call.raised)
          THEN /\ log' = Append(log, [level |-> "error",
                                      text |-> "failed to process endpoint",
                                      name |-> cursor])
               /\ cursor' = cursor + 1
               /\ UNCHANGED <<pc, endpoints>>
          ELSE /\ pc' = "raised"
               /\ UNCHANGED <<cursor, endpoints, log>>
    /\ UNCHANGED <<endpoint, get_templated_paths, links, lookup, endpoint_links,
                   eqVars, schema, last>>

\* the loop of DocsParser.run is exhausted
RunExhausted ==
    /\ pc = "run"
    /\ cursor = Len(endpoint_links) + 1
    /\ pc' = "finished"
    /\ UNCHANGED <<cursor, log, genVars, eqVars, schema, last>>

NextRun == ProcessEndpointDocs \/ RunExhausted

SpecRun == InitRun /\ [][NextRun]_vars

(***************************************************************************)
(* Properties of DocsParser.run.                                            *)
(***************************************************************************)
\* the page is fetched and one of its annotations cannot be parsed
MalformedPage(page) ==
    /\ page.status = 200
    /\ parse_parameters_from_name_tags(page.input_name_tags).raised # ""

\* the link at position i was processed and its endpoint yielded
Yielded(i) == \E k \in DOMAIN endpoints : endpoints[k].docs_url = i

\* C15: when the parse of one endpoint's parameters fails on a malformed
\* annotation, the run goes on: once it has ended, every link after the
\* malformed one whose page can be processed has been processed and yielded.
C15_MalformedEndpointDoesNotAbortRun ==
    pc \in {"finished", "raised"} =>
      \A i \in DOMAIN endpoint_links :
        MalformedPage(endpoint_links[i]) =>
          \A j \in (i + 1)..Len(endpoint_links) :
            (process_endpoint_docs(j, endpoint_links[j]).raised = "") => Yielded(j)

\* when no page is malformed the run ends by exhausting the list, and a
\* request that fails costs only its own endpoint
C15_HoldsWithoutMalformedPages ==
    (/\ pc \in {"finished", "raised"}
     /\ \A h \in DOMAIN endpoint_links : ~MalformedPage(endpoint_links[h]))
      => /\ pc = "finished"
         /\ \A j \in DOMAIN endpoint_links :
              (process_endpoint_docs(j, endpoint_links[j]).raised = "") => Yielded(j)
(***************************************************************************)
(* OpenAPIManager.consolidate_recursive_object_references.  The method      *)
(* works in place: catalog is self.schema["components"]["schemas"] as the   *)
(* statements executed so far have left it, and a path names the object a   *)
(* Python variable refers to inside it.                                     *)
(***************************************************************************)
\* the loop over the catalog for the items of one property: names are the
\* entries still to compare; prop_values["items"] is read anew for every
\* entry, and no match ends the loop
RECURSIVE consolidate_items_scan(_, _, _)
consolidate_items_scan(catalog, items_path, names) ==
    IF names = <<>> THEN catalog
    ELSE LET schema_name == Head(names)
             after == IF deep_equals(NodeAt(catalog, items_path),
                                     DictGet(catalog, schema_name))
                      THEN ReplaceAt(catalog, items_path, RefTo(schema_name))
                      ELSE catalog
         IN consolidate_items_scan(after, items_path, Tail(names))

\* the loop over the catalog for one property: prop_values is the object
\* the property held when the loop began, compared with every entry, and no
\* match ends the loop
RECURSIVE consolidate_prop_scan(_, _, _, _)
consolidate_prop_scan(catalog, prop_path, prop_values, names) ==
    IF names = <<>> THEN catalog
    ELSE LET schema_name == Head(names)
             after == IF deep_equals(prop_values, DictGet(catalog, schema_name))
                      THEN ReplaceAt(catalog, prop_path, RefTo(schema_name))
                      ELSE catalog
         IN consolidate_prop_scan(after, prop_path, prop_values, Tail(names))

\* the keys of the dict in the order of iteration
KeysInOrder(d) == [i \in DOMAIN d.items |-> d.items[i][1]]

\* process_schema(schema) for the object at schema_path, and its loop over
\* the properties prop_names still to visit; process_schema(prop_values)
\* after a replacement works on an object the catalog no longer holds
RECURSIVE process_schema(_, _)
RECURSIVE process_schema_props(_, _, _)
process_schema_props(catalog, props_path, prop_names) ==
    IF prop_names = <<>> THEN catalog
    ELSE LET prop_path == Append(props_path, Head(prop_names))
             prop_values == NodeAt(catalog, prop_path)
             names == KeysInOrder(catalog)
             after ==
               IF "items" \in Keys(prop_values)
               THEN IF "$ref" \notin Keys(DictGet(prop_values, "items"))
                    THEN consolidate_items_scan(catalog, Append(prop_path, "items"), names)
                    ELSE catalog
               ELSE IF "$ref" \notin Keys(prop_values)
               THEN LET scanned == consolidate_prop_scan(catalog, prop_path,
                                                         prop_values, names)
                    IN IF NodeAt(scanned, prop_path) = prop_values
                       THEN process_schema(scanned, prop_path)
                       ELSE scanned
               ELSE catalog
         IN process_schema_props(after, props_path, Tail(prop_names))

process_schema(catalog, schema_path) ==
    LET schema_node == NodeAt(catalog, schema_path)
    IN IF "properties" \in Keys(schema_node)
       THEN process_schema_props(catalog, Append(schema_path, "properties"),
                                 KeysInOrder(DictGet(schema_node, "properties")))
       ELSE catalog

\* the loop of consolidate_recursive_object_references over the entries
RECURSIVE consolidate_entries(_, _)
consolidate_entries(catalog, names) ==
    IF names = <<>> THEN catalog
    ELSE consolidate_entries(process_schema(catalog, <<Head(names)>>), Tail(names))

\* consolidate_recursive_object_references() on the document doc: the
\* document after the call and whether it raised (KeyError without components)
consolidate_recursive_object_references(doc) ==
    IF "components" \notin Keys(doc) THEN [schema |-> doc, raised |-> TRUE]
    ELSE IF "schemas" \notin Keys(DictGet(doc, "components"))
    THEN [schema |-> doc, raised |-> FALSE]
    ELSE [schema |-> WithCatalog(doc, consolidate_entries(Catalog(doc),
                                                          KeysInOrder(Catalog(doc)))),
          raised |-> FALSE]
\* a schema with one property
HolderOf(prop_values) ==
    Obj(<< <<"type", PyStr("object")>>,
           <<"properties", Obj(<< <<"p", prop_values>> >>)>> >>)

ArrayOf(items) == Obj(<< <<"type", PyStr("array")>>, <<"items", items>> >>)

\* what the property of the holder schema is: an inline object, a $ref, an
\* array of inline objects or of $refs, an object or an array whose own
\* property is an inline object
HeldValues ==
    {ObjString, ObjNumber, RefTo("A"), ArrayOf(ObjString), ArrayOf(RefTo("A")),
     HolderOf(ObjString), ArrayOf(HolderOf(ObjString))}

\* the catalogs consolidate_recursive_object_references runs on: two plain
\* schemas A and B, equal or not, and a schema holding a property, in every
\* order of insertion
ConsolidatedCatalogs ==
    UNION {{PyDict(order) : order \in SetIterations(Range(DictOfPresent(
                                << <<"A", a>>, <<"B", b>>, <<"Holder", holder>> >>)))} :
             <<a, b, holder>> \in {ObjString, ObjNumber}
                                    \X {Absent, ObjString, ObjStringReordered, ObjNumber}
                                    \X {HolderOf(held) : held \in HeldValues}}

ConsolidatedDocuments ==
    {PyDict(<< <<"paths", EmptyDict>> >>),
     PyDict(<< <<"paths", EmptyDict>>, <<"components", EmptyDict>> >>)}
      \cup {PyDict(<< <<"paths", EmptyDict>>,
                      <<"components", PyDict(<< <<"schemas", c>> >>)>> >>) :
              c \in ConsolidatedCatalogs}

InitCons ==
    /\ pc = "idle"
    /\ schema \in ConsolidatedDocuments
    /\ log = <<>>
    /\ cursor = 0
    /\ last = [op |-> "none"]
    /\ endpoint = NoTree /\ get_templated_paths = FALSE /\ links = <<>>
    /\ lookup = NoLookup
    /\ endpoint_links = <<>> /\ endpoints = <<>>
    /\ item1 = NoTree /\ item2 = NoTree /\ equal = FALSE

\* one call of OpenAPIManager.consolidate_recursive_object_references
Consolidate ==
    /\ pc = "idle"
    /\ LET call == consolidate_recursive_object_references(schema)
       IN /\ schema' = call.schema
          /\ last' = [op |-> "consolidate_recursive_object_references",
                      raised |-> call.raised, before |-> schema]
          /\ pc' = IF call.raised THEN "raised" ELSE "idle"
    /\ UNCHANGED <<log, cursor, genVars, eqVars>>

NextCons == Consolidate

SpecCons == InitCons /\ [][NextCons]_vars

(***************************************************************************)
(* Properties of consolidate_recursive_object_references.                   *)
(***************************************************************************)
\* the names of the entries of the catalog structurally equal to node
MatchingEntries(catalog, node) ==
    {name \in Keys(catalog) : SameStructure(DictGet(catalog, name), node)}

\* the first of the names in the catalog's order of iteration
FirstInOrder(catalog, names) ==
    KeysInOrder(catalog)[CHOOSE i \in DOMAIN catalog.items :
                           /\ KeysInOrder(catalog)[i] \in names
                           /\ \A j \in 1..(i - 1) : KeysInOrder(catalog)[j] \notin names]

\* the walk over the properties of old, a schema of the catalog before the
\* call, against new, what the call made of it: an inline object (or the
\* inline object under items) equal to entries is the $ref to the first of
\* them, and an inline object equal to none is walked in its turn
RECURSIVE WalkedFirstMatch(_, _, _)
WalkedFirstMatch(catalog, old, new) ==
    "properties" \in Keys(old) =>
      \A prop_name \in Keys(DictGet(old, "properties")) :
        LET was == DictGet(DictGet(old, "properties"), prop_name)
            is == DictGet(DictGet(new, "properties"), prop_name)
        IN IF "items" \in Keys(was)
           THEN ("$ref" \notin Keys(DictGet(was, "items"))
                 /\ MatchingEntries(catalog, DictGet(was, "items")) # {})
                  => DictGet(is, "items")
                       = RefTo(FirstInOrder(catalog,
                                 MatchingEntries(catalog, DictGet(was, "items"))))
           ELSE IF "$ref" \in Keys(was) THEN TRUE
           ELSE IF MatchingEntries(catalog, was) # {}
           THEN is = RefTo(FirstInOrder(catalog, MatchingEntries(catalog, was)))
           ELSE WalkedFirstMatch(catalog, was, is)

\* C16: after consolidate_recursive_object_references an inline object
\* property value, or the inline object under a property's items, that is
\* structurally equal to more than one catalog entry is the $ref to the
\* first such entry in the catalog's order, and a property value equal to no
\* entry has had its own properties walked.
C16_FirstMatchInCatalogOrderWins ==
    (/\ last.op = "consolidate_recursive_object_references"
     /\ HasCatalog(last.before))
      => \A name \in Keys(Catalog(last.before)) :
           WalkedFirstMatch(Catalog(last.before),
                            DictGet(Catalog(last.before), name),
                            DictGet(Catalog(schema), name))

====
